---- MODULE Spec2Model ----
(***************************************************************************)
(* SequentialTask.py: a task bundles a Keras model handle, a base loss and *)
(* training/validation datasets (SequentialTask); FunctionApproximationTask*)
(* builds its datasets from a random sample generator.                     *)
(*                                                                         *)
(* The Keras model, tf.data and numpy.random are collaborators outside the *)
(* file.  They are modelled by their documented behaviour:                 *)
(*   - Model.compile replaces the model's loss and metric list;            *)
(*   - Model.fit / Model.evaluate open an iterator on the dataset and pull *)
(*     a fixed number of batches, stopping (with a warning, no error) when *)
(*     the dataset ends;                                                   *)
(*   - Dataset.from_generator(...).batch(b).repeat() invokes the generator *)
(*     anew for every pass, groups b elements per batch (a shorter last    *)
(*     batch is kept) and ends only if a pass is empty;                    *)
(*   - numpy.random is a deterministic generator with a hidden global      *)
(*     state: modelled by a full-period congruential generator over 0..3   *)
(*     whose initial state is arbitrary.                                   *)
(* Callbacks are passed through to fit untouched and are not modelled.     *)
(* Reals are abstracted to integers (a draw from [low, high) is one of     *)
(* four grid points, rounded down).                                        *)
(***************************************************************************)
EXTENDS Integers, Sequences, FiniteSets, TLC

\* ---------------------------------------------------------------- bounds
MaxBatches == 2
MaxBatchSize == 2
MaxEpochs == 2
MaxSamples == 2

\* ------------------------------------------------------------ value sets
TaskIds == {"A", "B"}
ModelIds == {"m1", "m2"}
BaseLosses == {"mse", "mae"}
\* "ewc" stands for a composite loss: base loss plus a regulariser
Losses == BaseLosses \cup {"ewc"}
\* What the caller approximates: the number of independent variables, the
\* input transform, the target function and the domain.  One variable with
\* the default x_lim, and two variables on a wider interval.
FunctionSpecs ==
    {[independent_variables |-> 1, input_data_fn |-> "identity",
      data_fn |-> "affine", x_lim |-> <<-1, 1>>],
     [independent_variables |-> 2, input_data_fn |-> "negate",
      data_fn |-> "sum", x_lim |-> <<0, 4>>]}

\* A dataset handle.  kind "None": no dataset; "batches": a dataset the
\* caller built, n fixed batches, repeating or not; "from_generator": the
\* dataset create_dataset builds, n = max_samples, batch = batch size.
NoDataset == [kind |-> "None", n |-> 0, batch |-> 0, repeat |-> FALSE]

CallerDatasets ==
    {[kind |-> "batches", n |-> k, batch |-> 1, repeat |-> r] :
        k \in 0..MaxBatches, r \in BOOLEAN}

FiniteDatasets == {d \in CallerDatasets : ~d.repeat}

\* An object before __init__ assigned anything: attrs is the set of the
\* attributes assigned so far, the other fields hold placeholders until then.
NoTask ==
    [attrs |-> {}, kind |-> "none", model |-> "m1", model_base_loss |-> "mse",
     training_dataset |-> NoDataset, training_batches |-> 0,
     validation_dataset |-> NoDataset, validation_batches |-> 0,
     batch_size |-> 0, input_data_fn |-> "None", data_fn |-> "None",
     x_lim |-> <<0, 0>>, independent_variables |-> 0,
     training_samples |-> 0, validation_samples |-> 0]

\* The one element of a singleton set.  "The({F(v) : v \in {E}})" is F(E)
\* with E evaluated once, whatever the number of uses of v in F.
The(S) == CHOOSE v \in S : TRUE

\* ----------------------------------------------------------- numpy.random
NextRng(s) == (5 * s + 3) % 4

RngStates == 0..3

\* the states a run may start in: the seeds the caller picks
Seeds == {0, 1}

\* the unit draw in quarters: 0, 1/4, 1/2, 3/4
UnitDraw(s) == s

\* np.random.uniform(low, high, size): size components of low + (high-low)*u
RECURSIVE uniform(_, _, _, _)
uniform(low, high, size, rng) ==
    IF size = 0
    THEN [x |-> <<>>, rng |-> rng]
    ELSE The({[x |-> <<low + ((high - low) * UnitDraw(rng)) \div 4>> \o rest.x,
               rng |-> rest.rng] :
              rest \in {uniform(low, high, size - 1, NextRng(rng))}})

\* ------------------------------------------------- caller-supplied functions
RECURSIVE SumSeq(_)
SumSeq(x) == IF x = <<>> THEN 0 ELSE Head(x) + SumSeq(Tail(x))

ApplyDataFn(f, x) == IF f = "affine" THEN 2 * x[1] + 1 ELSE SumSeq(x)

ApplyInputFn(g, x) == IF g = "identity" THEN x ELSE [k \in 1..Len(x) |-> 0 - x[k]]

\* ------------------------------------------------------------ data_generator
\* One resumption of the generator whose loop counter is i: it yields the
\* next pair, or returns (the while condition is false).  Reading an
\* attribute that was never assigned raises AttributeError.
GeneratorReads == {"x_lim", "independent_variables", "data_fn", "input_data_fn"}

\* the loop test written "i <= max_samples"
data_generator_offByOne(self, max_samples, i, rng) ==
    IF i <= max_samples
    THEN The({[state |-> "yield", x |-> d.x,
               pair |-> <<ApplyInputFn(self.input_data_fn, d.x),
                          ApplyDataFn(self.data_fn, d.x)>>,
               i |-> i + 1, rng |-> d.rng] :
              d \in {uniform(self.x_lim[1], self.x_lim[2],
                             self.independent_variables, rng)}})
    ELSE [state |-> "return", x |-> <<>>, pair |-> <<<<>>, 0>>, i |-> i, rng |-> rng]

data_generator(self, max_samples, i, rng) ==
    IF i < max_samples
    THEN IF GeneratorReads \subseteq self.attrs
         THEN The({[state |-> "yield", x |-> d.x,
                    pair |-> <<ApplyInputFn(self.input_data_fn, d.x),
                               ApplyDataFn(self.data_fn, d.x)>>,
                    i |-> i + 1, rng |-> d.rng] :
                   d \in {uniform(self.x_lim[1], self.x_lim[2],
                                  self.independent_variables, rng)}})
         ELSE [state |-> "AttributeError", x |-> <<>>, pair |-> <<<<>>, 0>>,
               i |-> i, rng |-> rng]
    ELSE [state |-> "return", x |-> <<>>, pair |-> <<<<>>, 0>>, i |-> i, rng |-> rng]

\* ------------------------------------------------------------------ tf.data
\* An iterator over a dataset.  i: the generator's loop counter (or the
\* position in a caller-built dataset); live: a generator invocation is
\* suspended at a yield; fresh: the current pass has delivered no batch yet;
\* runs: the log of the generator invocations this iterator started, each
\* with the vectors it drew and the pairs it emitted.
NewIterator == [i |-> 0, live |-> FALSE, fresh |-> TRUE, runs |-> <<>>]

\* the loop counter kept across invocations (an attribute, not a local)
StartRun_keepCounter(ds, it) ==
    [it EXCEPT !.live = TRUE, !.fresh = TRUE,
               !.runs = Append(@, [max_samples |-> ds.n, xs |-> <<>>,
                                   pairs |-> <<>>, completed |-> FALSE])]

\* Invoking the generator function: a new loop counter, i = 0.
StartRun(ds, it) ==
    [it EXCEPT !.i = 0, !.live = TRUE, !.fresh = TRUE,
               !.runs = Append(@, [max_samples |-> ds.n, xs |-> <<>>,
                                   pairs |-> <<>>, completed |-> FALSE])]

LogYield(it, r) ==
    [it EXCEPT !.i = r.i,
               !.runs[Len(it.runs)].xs = Append(@, r.x),
               !.runs[Len(it.runs)].pairs = Append(@, r.pair)]

LogReturn(it) ==
    [it EXCEPT !.live = FALSE, !.runs[Len(it.runs)].completed = TRUE]

\* Dataset.batch: pull elements from the running generator until the batch
\* holds ds.batch of them or the generator returns.
RECURSIVE BatchNext(_, _, _, _, _)
BatchNext(self, ds, it, rng, buf) ==
    IF Len(buf) = ds.batch
    THEN [batch |-> buf, it |-> it, rng |-> rng, err |-> FALSE]
    ELSE The({CASE r.state = "yield" ->
                    BatchNext(self, ds, LogYield(it, r), r.rng, Append(buf, r.pair))
                [] r.state = "return" ->
                    [batch |-> buf, it |-> LogReturn(it), rng |-> rng, err |-> FALSE]
                [] OTHER ->
                    [batch |-> buf, it |-> it, rng |-> rng, err |-> TRUE] :
              r \in {data_generator(self, ds.n, it.i, rng)}})

\* The k-th batch of a caller-built dataset: one fixed pair.
FixedBatch(k) == << <<<<k>>, k>> >>

EndOfSequence(it, rng, err) ==
    [end |-> TRUE, batch |-> <<>>, it |-> it, rng |-> rng, err |-> err]

Deliver(r) ==
    [end |-> FALSE, batch |-> r.batch, it |-> [r.it EXCEPT !.fresh = FALSE],
     rng |-> r.rng, err |-> FALSE]

\* Dataset.repeat over the batched generator: when a pass ends, the
\* generator is invoked again; a pass that delivers nothing ends the dataset.
FirstOfPass(r) ==
    IF r.err THEN EndOfSequence(r.it, r.rng, TRUE)
    ELSE IF r.batch # <<>> THEN Deliver(r)
    ELSE EndOfSequence(r.it, r.rng, FALSE)

RepeatNext(self, ds, it, rng) ==
    The({IF r0.err \/ r0.batch # <<>> \/ ~it.live \/ it.fresh
         THEN FirstOfPass(r0)
         ELSE The({FirstOfPass(r1) :
                   r1 \in {BatchNext(self, ds, StartRun(ds, r0.it), r0.rng, <<>>)}}) :
         r0 \in {BatchNext(self, ds, IF it.live THEN it ELSE StartRun(ds, it),
                           rng, <<>>)}})

\* next(iterator): the next batch of the dataset, or its end.
IteratorNext(self, ds, it, rng) ==
    CASE ds.kind = "from_generator" -> RepeatNext(self, ds, it, rng)
      [] ds.kind = "batches" ->
            IF it.i < ds.n
            THEN [end |-> FALSE, batch |-> FixedBatch(it.i + 1),
                  it |-> [it EXCEPT !.i = @ + 1], rng |-> rng, err |-> FALSE]
            ELSE IF ds.repeat /\ ds.n > 0
            THEN [end |-> FALSE, batch |-> FixedBatch(1),
                  it |-> [it EXCEPT !.i = 1], rng |-> rng, err |-> FALSE]
            ELSE EndOfSequence(it, rng, FALSE)
      [] OTHER -> EndOfSequence(it, rng, FALSE)

\* Pull up to k batches: what a Keras epoch of k steps does.  ran_out: the
\* dataset ended first.
RECURSIVE Take(_, _, _, _, _, _)
Take(self, ds, it, rng, k, acc) ==
    IF k = 0
    THEN [batches |-> acc, it |-> it, rng |-> rng, ran_out |-> FALSE, err |-> FALSE]
    ELSE The({IF r.end
              THEN [batches |-> acc, it |-> r.it, rng |-> r.rng,
                    ran_out |-> ~r.err, err |-> r.err]
              ELSE Take(self, ds, r.it, r.rng, k - 1, Append(acc, r.batch)) :
              r \in {IteratorNext(self, ds, it, rng)}})

\* -------------------------------------------------------------- Keras model
\* A model handle: its compiled loss, its tracked metrics and its weights
\* ("initial" until a fit ran a step).
NewModel == [loss |-> "None", metrics |-> <<>>, weights |-> "initial"]

\* Model.compile(optimizer, loss, metrics, run_eagerly): the weights stay.
Model_compile(model, loss, metrics) ==
    [model EXCEPT !.loss = loss, !.metrics = metrics]

\* The mapping Model.evaluate returns: the loss and every tracked metric,
\* each value determined by the function, the weights and the batches seen.
MetricsResult(model, data) ==
    {[name |-> "loss", fn |-> model.loss, weights |-> model.weights, data |-> data]}
    \cup {[name |-> model.metrics[k], fn |-> model.metrics[k],
           weights |-> model.weights, data |-> data] :
            k \in 1..Len(model.metrics)}

\* Model.evaluate(dataset, steps, return_dict=True): a new iterator, steps
\* batches; the model is left as it was.
Model_evaluate(self, model, ds, steps, rng) ==
    The({[result |-> MetricsResult(model, t.batches), model |-> model,
          seen |-> t.batches, runs |-> t.it.runs,
          rng |-> t.rng, ran_out |-> t.ran_out, err |-> t.err] :
         t \in {Take(self, ds, NewIterator, rng, steps, <<>>)}})

\* The keys of one epoch's history record.
EpochKeys(model, validated) ==
    {<<"", e.name>> : e \in MetricsResult(model, <<>>)}
    \cup (IF validated
          THEN {<<"val", e.name>> : e \in MetricsResult(model, <<>>)}
          ELSE {})

\* Model.fit: one iterator over the training dataset for the whole call,
\* steps_per_epoch batches per epoch; after each epoch validation_steps
\* batches from a new iterator over the validation dataset.  When the training
\* dataset ends, Keras warns ("ran out of data; interrupting training"),
\* records the epoch and returns.
RECURSIVE FitEpochs(_, _, _, _, _, _, _, _, _)
FitEpochs(self, model, ds, steps, vds, vsteps, epochs, e, st) ==
    IF e > epochs \/ st.ran_out \/ st.err
    THEN st
    ELSE The({The({FitEpochs(self, model, ds, steps, vds, vsteps, epochs, e + 1,
                     [it |-> tr.it, rng |-> va.rng,
                      history |-> IF tr.err \/ va.err THEN st.history
                                  ELSE Append(st.history,
                                         [epoch |-> e, steps |-> Len(tr.batches),
                                          keys |-> EpochKeys(model,
                                                     vds.kind # "None")]),
                      seen |-> st.seen \o tr.batches,
                      vruns |-> st.vruns \o va.it.runs,
                      ran_out |-> tr.ran_out,
                      err |-> tr.err \/ va.err]) :
                   va \in {IF vds.kind # "None" /\ ~tr.err
                           THEN Take(self, vds, NewIterator, tr.rng, vsteps, <<>>)
                           ELSE [batches |-> <<>>, it |-> NewIterator, rng |-> tr.rng,
                                 ran_out |-> FALSE, err |-> FALSE]}}) :
              tr \in {Take(self, ds, st.it, st.rng, steps, <<>>)}})

Model_fit(self, model, ds, epochs, steps, vds, vsteps, rng) ==
    FitEpochs(self, model, ds, steps, vds, vsteps, epochs, 1,
        [it |-> NewIterator, rng |-> rng, history |-> <<>>, seen |-> <<>>,
         vruns |-> <<>>, ran_out |-> FALSE, err |-> FALSE])

\* -------------------------------------------------------------------- state
VARIABLES
    tasks,       \* task id -> the task object
    models,      \* model handle -> the Keras model's compile state and weights
    rng,         \* numpy.random's global state
    ret,         \* the last call: what it was, what it returned, what it consumed
    ctor,        \* task id -> what its constructor was given and did
    compileArg   \* task id -> the loss of the task's most recent compile_model

vars == <<tasks, models, rng, ret, ctor, compileArg>>

NoCall ==
    [op |-> "none", task |-> "A", arg |-> 0, raised |-> "", history |-> <<>>,
     result |-> {}, invoked |-> FALSE, steps |-> 0, seen |-> <<>>, runs |-> <<>>,
     vruns |-> <<>>, ran_out |-> FALSE, streak |-> 0]

NoCtor ==
    [batch_size |-> 0, rng_before |-> 0, rng_after |-> 0, runs |-> <<>>,
     attrs_at_create |-> {}, err |-> FALSE]

Init ==
    /\ tasks = [t \in TaskIds |-> NoTask]
    /\ models = [m \in ModelIds |-> NewModel]
    /\ rng \in Seeds
    /\ ret = NoCall
    /\ ctor = [t \in TaskIds |-> NoCtor]
    /\ compileArg = [t \in TaskIds |-> "None"]

Ready(t) == tasks[t].kind # "none"

\* ------------------------------------------------------------ SequentialTask
\* compile_model: recompile the task's model with loss_fn, keeping the base
\* loss as the tracked metric.
\* metrics=[loss_fn]: the tracked metric follows the loss
compile_model_lossAsMetric(self, ms, loss_fn) ==
    [ms EXCEPT ![self.model] = Model_compile(@, loss_fn, <<loss_fn>>)]

\* the compile state kept in one place for all model handles
compile_model_everyModel(self, ms, loss_fn) ==
    [m \in DOMAIN ms |-> Model_compile(ms[m], loss_fn, <<self.model_base_loss>>)]

compile_model(self, ms, loss_fn) ==
    [ms EXCEPT ![self.model] = Model_compile(@, loss_fn, <<self.model_base_loss>>)]

BaseAttrs ==
    {"name", "model", "model_base_loss", "training_dataset", "training_batches",
     "validation_dataset", "validation_batches", "batch_size", "input_data_fn",
     "data_fn", "x_lim", "y_lim"}

\* SequentialTask.__init__: assign every parameter, then compile with the
\* base loss.
SequentialTask_init(self, a, ms) ==
    LET s == [self EXCEPT
                !.model = a.model,
                !.model_base_loss = a.model_base_loss,
                !.training_dataset = a.training_dataset,
                !.training_batches = a.training_batches,
                !.validation_dataset = a.validation_dataset,
                !.validation_batches = a.validation_batches,
                !.batch_size = a.batch_size,
                !.input_data_fn = a.input_data_fn,
                !.data_fn = a.data_fn,
                !.x_lim = a.x_lim,
                !.attrs = @ \cup BaseAttrs]
    IN  [self |-> s, models |-> compile_model(s, ms, a.model_base_loss)]

\* The arguments of a SequentialTask built by the caller; batch_size,
\* input_data_fn, data_fn and x_lim are left at their defaults.
SequentialArgs(model, loss, tds, tb, vds, vb) ==
    [model |-> model, model_base_loss |-> loss,
     training_dataset |-> tds, training_batches |-> tb,
     validation_dataset |-> vds, validation_batches |-> vb,
     batch_size |-> 0, input_data_fn |-> "None", data_fn |-> "None",
     x_lim |-> <<0, 0>>]

NewSequentialTask(t, a) ==
    /\ ~Ready(t)
    /\ \E r \in {SequentialTask_init([NoTask EXCEPT !.kind = "SequentialTask"], a, models)} :
           /\ tasks' = [tasks EXCEPT ![t] = r.self]
           /\ models' = r.models
    /\ compileArg' = [compileArg EXCEPT ![t] = a.model_base_loss]
    /\ ctor' = [ctor EXCEPT ![t] = [NoCtor EXCEPT !.batch_size = a.batch_size,
                                       !.rng_before = rng, !.rng_after = rng]]
    /\ ret' = [NoCall EXCEPT !.op = "construct", !.task = t]
    /\ UNCHANGED rng

\* ------------------------------------------------- FunctionApproximationTask
\* create_dataset: from_generator(self.data_generator, args=[max_samples])
\* .batch(self.batch_size).repeat().  Nothing is generated here.
DatasetOf(self, max_samples) ==
    [kind |-> "from_generator", n |-> max_samples, batch |-> self.batch_size,
     repeat |-> TRUE]

\* the first batch generated when the dataset is built
create_dataset_eager(self, max_samples, r) ==
    The({[dataset |-> DatasetOf(self, max_samples),
          rng |-> first.rng, runs |-> first.it.runs, err |-> first.err] :
         first \in {IteratorNext(self, DatasetOf(self, max_samples),
                                 NewIterator, r)}})

create_dataset(self, max_samples, r) ==
    [dataset |-> DatasetOf(self, max_samples), rng |-> r, runs |-> <<>>,
     err |-> FALSE]

\* FunctionApproximationTask.__init__: the fields of lines 200-205, the two
\* datasets (built while the arguments of super().__init__ are evaluated),
\* then SequentialTask.__init__, to which batch_size is not passed.
\* the batch count passed where the sample count is meant
TrainingSamples_batchesOnly(a) == a.training_batches

\* the max_samples of the two create_dataset calls (lines 213 and 215)
TrainingSamples(a) == a.training_batches * a.batch_size

ValidationSamples(a) == a.validation_batches * a.batch_size

FAFields(self, a) ==
    [self EXCEPT
       !.independent_variables = a.independent_variables,
       !.batch_size = a.batch_size,
       !.training_samples = a.training_batches * a.batch_size,
       !.validation_samples = a.validation_batches * a.batch_size,
       !.attrs = @ \cup {"model_input_shape", "independent_variables",
                         "batch_size", "training_samples", "validation_samples"}]

\* super().__init__(...) of line 207: batch_size is not among the arguments
SuperArgs(a, tds, vds) ==
    [model |-> a.model, model_base_loss |-> a.model_base_loss,
     training_dataset |-> tds, training_batches |-> a.training_batches,
     validation_dataset |-> vds, validation_batches |-> a.validation_batches,
     batch_size |-> 0,
     input_data_fn |-> a.input_data_fn, data_fn |-> a.data_fn, x_lim |-> a.x_lim]

FunctionApproximationTask_init(self, a, ms, r) ==
    The({The({The({The({
        [self |-> b.self, models |-> b.models, rng |-> vds.rng,
         runs |-> tds.runs \o vds.runs, attrs_at_create |-> s1.attrs,
         err |-> tds.err \/ vds.err] :
        b \in {SequentialTask_init(s1, SuperArgs(a, tds.dataset, vds.dataset), ms)}}) :
        vds \in {create_dataset(s1, ValidationSamples(a), tds.rng)}}) :
        tds \in {create_dataset(s1, TrainingSamples(a), r)}}) :
        s1 \in {FAFields(self, a)}})

FunctionArgs(model, loss, fs, tb, vb, bs) ==
    [model |-> model, model_base_loss |-> loss,
     independent_variables |-> fs.independent_variables,
     input_data_fn |-> fs.input_data_fn, data_fn |-> fs.data_fn,
     training_batches |-> tb, validation_batches |-> vb, batch_size |-> bs,
     x_lim |-> fs.x_lim]

NewFunctionApproximationTask(t, a) ==
    /\ ~Ready(t)
    /\ \E r \in {FunctionApproximationTask_init(
                    [NoTask EXCEPT !.kind = "FunctionApproximationTask"], a, models, rng)} :
           /\ tasks' = [tasks EXCEPT ![t] = r.self]
           /\ models' = r.models
           /\ rng' = r.rng
           /\ ctor' = [ctor EXCEPT ![t] =
                         [batch_size |-> a.batch_size, rng_before |-> rng,
                          rng_after |-> r.rng, runs |-> r.runs,
                          attrs_at_create |-> r.attrs_at_create, err |-> r.err]]
    /\ compileArg' = [compileArg EXCEPT ![t] = a.model_base_loss]
    /\ ret' = [NoCall EXCEPT !.op = "construct", !.task = t]

\* ------------------------------------------------------------- the calls
\* task.compile_model(loss_fn), called again by the driver.
Compile(t, loss_fn) ==
    /\ Ready(t)
    /\ models' = compile_model(tasks[t], models, loss_fn)
    /\ compileArg' = [compileArg EXCEPT ![t] = loss_fn]
    /\ ret' = [NoCall EXCEPT !.op = "compile", !.task = t]
    /\ UNCHANGED <<tasks, rng, ctor>>

\* train_on_task(epochs, callbacks): model.fit on the task's datasets and
\* batch counts; whatever fit returns is returned.
train_on_task(self, ms, epochs, r) ==
    Model_fit(self, ms[self.model], self.training_dataset, epochs,
              self.training_batches, self.validation_dataset,
              self.validation_batches, r)

Train(t, epochs) ==
    /\ Ready(t)
    /\ \E f \in {train_on_task(tasks[t], models, epochs, rng)} :
           /\ rng' = f.rng
           /\ models' = IF f.seen = <<>> THEN models
                        ELSE [models EXCEPT ![tasks[t].model].weights = "trained"]
           /\ ret' = [NoCall EXCEPT !.op = "train", !.task = t, !.arg = epochs,
                         !.raised = IF f.err THEN "AttributeError" ELSE "",
                         !.history = f.history, !.invoked = TRUE,
                         !.steps = tasks[t].training_batches,
                         !.seen = f.seen, !.runs = f.it.runs, !.vruns = f.vruns,
                         !.ran_out = f.ran_out]
    /\ UNCHANGED <<tasks, ctor, compileArg>>

\* evaluate_model: {} without touching the model when there is no validation
\* dataset, else model.evaluate over validation_batches steps.
\* no test for a missing validation dataset
evaluate_model_noGuard(self, ms, r) ==
    The({[result |-> e.result, invoked |-> TRUE,
          steps |-> self.validation_batches,
          models |-> [ms EXCEPT ![self.model] = e.model],
          seen |-> e.seen, runs |-> e.runs, rng |-> e.rng,
          ran_out |-> e.ran_out, err |-> e.err] :
         e \in {Model_evaluate(self, ms[self.model], self.validation_dataset,
                               self.validation_batches, r)}})

\* the model recompiled with the base loss before it is evaluated
evaluate_model_recompiles(self, ms, r) ==
    IF self.validation_dataset.kind = "None"
    THEN [result |-> {}, invoked |-> FALSE, steps |-> 0, models |-> ms,
          seen |-> <<>>, runs |-> <<>>, rng |-> r, ran_out |-> FALSE,
          err |-> FALSE]
    ELSE The({[result |-> e.result, invoked |-> TRUE,
               steps |-> self.validation_batches,
               models |-> [compile_model(self, ms, self.model_base_loss)
                             EXCEPT ![self.model] = e.model],
               seen |-> e.seen, runs |-> e.runs, rng |-> e.rng,
               ran_out |-> e.ran_out, err |-> e.err] :
              e \in {Model_evaluate(self,
                        compile_model(self, ms, self.model_base_loss)[self.model],
                        self.validation_dataset, self.validation_batches, r)}})

evaluate_model(self, ms, r) ==
    IF self.validation_dataset.kind = "None"
    THEN [result |-> {}, invoked |-> FALSE, steps |-> 0, models |-> ms,
          seen |-> <<>>, runs |-> <<>>, rng |-> r, ran_out |-> FALSE,
          err |-> FALSE]
    ELSE The({[result |-> e.result, invoked |-> TRUE,
               steps |-> self.validation_batches,
               models |-> [ms EXCEPT ![self.model] = e.model],
               seen |-> e.seen, runs |-> e.runs, rng |-> e.rng,
               ran_out |-> e.ran_out, err |-> e.err] :
              e \in {Model_evaluate(self, ms[self.model], self.validation_dataset,
                                    self.validation_batches, r)}})

Evaluate(t) ==
    /\ Ready(t)
    /\ \E e \in {evaluate_model(tasks[t], models, rng)} :
           /\ rng' = e.rng
           /\ models' = e.models
           /\ ret' = [NoCall EXCEPT !.op = "evaluate", !.task = t,
                         !.raised = IF e.err THEN "AttributeError" ELSE "",
                         !.result = e.result, !.invoked = e.invoked,
                         !.steps = e.steps,
                         !.seen = e.seen, !.runs = e.runs, !.ran_out = e.ran_out,
                         !.streak = IF ret.op = "evaluate" /\ ret.task = t THEN 2 ELSE 1]
    /\ UNCHANGED <<tasks, ctor, compileArg>>

\* list(task.data_generator(max_samples)): the caller drives one invocation
\* of the generator to its end.
RECURSIVE Exhaust(_, _, _, _)
Exhaust(self, ds, it, r) ==
    The({CASE g.state = "yield" -> Exhaust(self, ds, LogYield(it, g), g.rng)
           [] g.state = "return" -> [it |-> LogReturn(it), rng |-> r, err |-> FALSE]
           [] OTHER -> [it |-> it, rng |-> r, err |-> TRUE] :
         g \in {data_generator(self, ds.n, it.i, r)}})

GeneratorCall(max_samples) ==
    [kind |-> "from_generator", n |-> max_samples, batch |-> 1, repeat |-> FALSE]

Generate(t, max_samples) ==
    /\ Ready(t)
    /\ tasks[t].kind = "FunctionApproximationTask"
    /\ \E g \in {Exhaust(tasks[t], GeneratorCall(max_samples),
                            StartRun(GeneratorCall(max_samples), NewIterator), rng)} :
           /\ rng' = g.rng
           /\ ret' = [NoCall EXCEPT !.op = "generate", !.task = t,
                         !.arg = max_samples,
                         !.raised = IF g.err THEN "AttributeError" ELSE "",
                         !.runs = g.it.runs]
    /\ UNCHANGED <<tasks, models, ctor, compileArg>>

\* ----------------------------------------------------------- specifications
\* One task of either class, on one model handle.
NextOne ==
    \/ \E tds \in CallerDatasets, vds \in FiniteDatasets \cup {NoDataset},
          tb \in 0..MaxBatches, vb \in 0..MaxBatches :
            NewSequentialTask("A", SequentialArgs("m1", "mse", tds, tb, vds, vb))
    \/ \E fs \in FunctionSpecs, tb \in 0..MaxBatches, vb \in 0..MaxBatches,
          bs \in 1..MaxBatchSize :
            NewFunctionApproximationTask("A", FunctionArgs("m1", "mse", fs, tb, vb, bs))
    \/ \E loss_fn \in {"mse", "ewc"} : Compile("A", loss_fn)
    \/ \E epochs \in 1..MaxEpochs : Train("A", epochs)
    \/ Evaluate("A")
    \/ \E n \in 0..MaxSamples : Generate("A", n)

Spec == Init /\ [][NextOne]_vars

\* Two tasks built by the caller over the model handles m1 and m2, each with
\* a repeating one-batch training dataset and a one-batch validation dataset.
SharedTraining == [kind |-> "batches", n |-> 1, batch |-> 1, repeat |-> TRUE]

SharedValidation == [kind |-> "batches", n |-> 1, batch |-> 1, repeat |-> FALSE]

NextShared ==
    \/ \E t \in TaskIds, m \in ModelIds, loss \in BaseLosses :
            NewSequentialTask(t, SequentialArgs(m, loss, SharedTraining, 1,
                                                SharedValidation, 1))
    \/ \E t \in TaskIds, loss_fn \in Losses : Compile(t, loss_fn)
    \/ \E t \in TaskIds, epochs \in 1..MaxEpochs : Train(t, epochs)
    \/ \E t \in TaskIds : Evaluate(t)

SpecShared == Init /\ [][NextShared]_vars

\* ===================================================================== claims
IsFA(t) == tasks[t].kind = "FunctionApproximationTask"

Tracks(model, loss) == \E k \in 1..Len(model.metrics) : model.metrics[k] = loss

\* C1: after construction and any compile/train/evaluate calls on a task,
\* its model is compiled with the loss of the most recent compile call (the
\* base loss after construction) and tracks the task's base loss as a metric.
C1_CompiledLossAndBaseMetric ==
    \A t \in TaskIds :
        Ready(t) =>
            /\ models[tasks[t].model].loss = compileArg[t]
            /\ Tracks(models[tasks[t].model], tasks[t].model_base_loss)

\* a task recompiled with the composite loss and then trained
C1_Witness ==
    /\ Ready("A")
    /\ compileArg["A"] = "ewc"
    /\ ret.op = "train"
    /\ models[tasks["A"].model].loss = "ewc"
    /\ Tracks(models[tasks["A"].model], "mse")

C2_WitnessNone ==
    /\ ret.op = "evaluate"
    /\ tasks[ret.task].validation_dataset.kind = "None"
    /\ ret.result = {}

Unshared(t) ==
    \A u \in TaskIds \ {t} : Ready(u) => tasks[u].model # tasks[t].model

ReportsBase(t) ==
    /\ models[tasks[t].model].loss = compileArg[t]
    /\ Tracks(models[tasks[t].model], tasks[t].model_base_loss)
    /\ (ret.op = "evaluate" /\ ret.task = t) =>
            \E e \in ret.result : e.name = tasks[t].model_base_loss

\* C3 as stated: whatever is done with another task, also one built over the
\* same model handle, a task keeps its loss and its tracked base loss, and
\* its evaluate reports its base loss.
C3_NoSharedState == \A t \in TaskIds : Ready(t) => ReportsBase(t)

\* C3 amended: this holds of a task whose model handle no other task uses.
C3_DistinctHandlesIsolated ==
    \A t \in TaskIds : (Ready(t) /\ Unshared(t)) => ReportsBase(t)

\* A evaluated after B, on another handle and with another base loss, was
\* recompiled
C3_Witness ==
    /\ Ready("A") /\ Ready("B")
    /\ tasks["A"].model # tasks["B"].model
    /\ tasks["A"].model_base_loss # tasks["B"].model_base_loss
    /\ compileArg["B"] = "ewc"
    /\ ret.op = "evaluate" /\ ret.task = "A"
    /\ \E e \in ret.result : e.name = tasks["A"].model_base_loss

TrainedFA == ret.op = "train" /\ IsFA(ret.task) /\ ret.raised = ""

\* C4 as stated: in a train call, batch j of every later pass over the
\* training stream equals batch j of the first pass.
C4_EpochReplay ==
    TrainedFA =>
        \A k \in 1..Len(ret.seen) :
            k > tasks[ret.task].training_batches =>
                ret.seen[k] = ret.seen[k - tasks[ret.task].training_batches]

\* the batches of pass p, cut from the pairs the p-th generator invocation emitted
BatchOfRun(run, j, b) == SubSeq(run.pairs, (j - 1) * b + 1, j * b)

\* C4 amended: every pass is a new invocation of the generator.  Pass p
\* delivers training_batches batches, and its batch j holds the pairs the
\* p-th invocation drew, in order; they are new draws, not the first pass's.
C4_PassesAreNewInvocations ==
    TrainedFA =>
        LET tb == tasks[ret.task].training_batches
            b  == tasks[ret.task].training_dataset.batch
        IN  /\ Len(ret.seen) = ret.arg * tb
            /\ \A k \in 1..Len(ret.seen) :
                  LET p == ((k - 1) \div tb) + 1
                      j == ((k - 1) % tb) + 1
                  IN  /\ p <= Len(ret.runs)
                      /\ ret.seen[k] = BatchOfRun(ret.runs[p], j, b)

\* a second pass whose first batch differs from the first pass's
C4_Witness ==
    /\ TrainedFA
    /\ tasks[ret.task].training_batches = 2
    /\ Len(ret.seen) = 4
    /\ Len(ret.runs) = 2
    /\ ret.seen[3] # ret.seen[1]
    /\ ret.seen[3] = BatchOfRun(ret.runs[2], 1, tasks[ret.task].training_dataset.batch)

\* what an evaluate result says apart from the data it was computed on
Unvalued(result) == {[name |-> e.name, fn |-> e.fn, weights |-> e.weights] : e \in result}

\* C5 as stated: the second of two consecutive evaluate calls sees the same
\* validation batches and returns the same mapping as the first.
C5_EvaluateIdempotent ==
    [][(ret'.op = "evaluate" /\ ret'.streak = 2) =>
            (ret'.seen = ret.seen /\ ret'.result = ret.result)]_vars

\* C5 amended: evaluate changes no task field and nothing of the model; the
\* second of two consecutive calls reports the same metrics of the same
\* functions and weights over as many batches of the same sizes.  The batches
\* are the same ones when the validation dataset is absent or caller-built;
\* for a generated dataset they are the pairs of a new generator invocation.
C5_EvaluateRepeatable ==
    [][(ret'.op = "evaluate") =>
          /\ tasks' = tasks
          /\ models' = models
          /\ (ret'.streak = 2) =>
                /\ Unvalued(ret'.result) = Unvalued(ret.result)
                /\ Len(ret'.seen) = Len(ret.seen)
                /\ \A k \in 1..Len(ret'.seen) : Len(ret'.seen[k]) = Len(ret.seen[k])
                /\ tasks[ret'.task].validation_dataset.kind # "from_generator" =>
                        (ret'.seen = ret.seen /\ ret'.result = ret.result)
                /\ (tasks[ret'.task].validation_dataset.kind = "from_generator"
                        /\ ret'.seen # <<>>) =>
                        /\ Len(ret'.runs) = 1
                        /\ \A k \in 1..Len(ret'.seen) :
                              ret'.seen[k] = BatchOfRun(ret'.runs[1], k,
                                  tasks[ret'.task].validation_dataset.batch)
    ]_vars

\* a second consecutive evaluate of a FunctionApproximationTask that saw
\* validation batches
C5_Witness ==
    /\ ret.op = "evaluate"
    /\ ret.streak = 2
    /\ IsFA(ret.task)
    /\ ret.seen # <<>>

\* C6: when the stream supplies fewer batches than the call asks for, train
\* (evaluate) ends in an OutOfData error.
C6_OutOfDataRaised ==
    (ret.op \in {"train", "evaluate"} /\ ret.ran_out) => ret.raised = "OutOfData"

RunsOf(t) == ret.runs \o ret.vruns \o ctor[t].runs

InDomain(self, x) ==
    /\ Len(x) = self.independent_variables
    /\ \A c \in 1..Len(x) : self.x_lim[1] <= x[c] /\ x[c] < self.x_lim[2]

\* C7: an invocation of the generator emits at most max_samples pairs and
\* returns only after exactly max_samples; driven to its end it returns
\* after max_samples pairs (none for max_samples = 0).  Every pair is
\* (input_data_fn(v), data_fn(v)) for one drawn vector v inside x_lim.
C7_GeneratorEmitsMaxSamples ==
    \A t \in TaskIds :
        (Ready(t) /\ ret.task = t) =>
            /\ \A n \in 1..Len(RunsOf(t)) :
                  LET run == RunsOf(t)[n]
                  IN  /\ Len(run.pairs) <= run.max_samples
                      /\ run.completed => Len(run.pairs) = run.max_samples
                      /\ Len(run.xs) = Len(run.pairs)
                      /\ \A k \in 1..Len(run.pairs) :
                            /\ InDomain(tasks[t], run.xs[k])
                            /\ run.pairs[k] =
                                 <<ApplyInputFn(tasks[t].input_data_fn, run.xs[k]),
                                   ApplyDataFn(tasks[t].data_fn, run.xs[k])>>
            /\ ret.op = "generate" =>
                  /\ Len(ret.runs) = 1
                  /\ ret.runs[1].completed
                  /\ ret.runs[1].max_samples = ret.arg
                  /\ Len(ret.runs[1].pairs) = ret.arg

\* the generator driven to its end for two or more samples of two variables
C7_Witness ==
    /\ ret.op = "generate"
    /\ ret.arg >= 2
    /\ ret.runs[1].completed
    /\ Len(ret.runs[1].pairs) = ret.arg
    /\ tasks[ret.task].independent_variables = 2

C9_BatchSizeFieldKept ==
    \A t \in TaskIds :
        (Ready(t) /\ IsFA(t)) =>
            /\ tasks[t].batch_size = ctor[t].batch_size
            /\ tasks[t].training_samples
                 = tasks[t].training_batches * tasks[t].batch_size
            /\ tasks[t].validation_samples
                 = tasks[t].validation_batches * tasks[t].batch_size

\* C10: constructing a FunctionApproximationTask runs no generator step and
\* leaves the random source as it was, and no generator step ever reads a
\* field that has not been assigned (no AttributeError), although the
\* datasets are built before x_lim, data_fn and input_data_fn are assigned.
C10_GenerationIsLazy ==
    /\ ret.raised # "AttributeError"
    /\ \A t \in TaskIds :
          (Ready(t) /\ IsFA(t)) =>
              /\ ctor[t].runs = <<>>
              /\ ~ctor[t].err
              /\ ctor[t].rng_after = ctor[t].rng_before
              /\ {"x_lim", "data_fn", "input_data_fn"} \cap ctor[t].attrs_at_create = {}
              /\ (ret.op = "construct" /\ ret.task = t) => rng = ctor[t].rng_before

\* a train call whose generator ran, on a task whose datasets were built
\* before x_lim was assigned
C10_Witness ==
    /\ TrainedFA
    /\ ret.runs # <<>>
    /\ ~("x_lim" \in ctor[ret.task].attrs_at_create)
    /\ ctor[ret.task].runs = <<>>

====
